---------------------------- MODULE Spec2Model ----------------------------
(* Model of slack-support-agent:                                           *)
(*   ai_support.generate_support   (the assistance orchestrator)           *)
(*   SlackService.fetch_thread_messages and the two mapping functions      *)
(*   SlackAgentApp.on_generate_support (the handler composing the two)     *)
(*                                                                         *)
(* A Python str is a sequence of one-token strings; None is the one-token  *)
(* sequence None below, so that `x or y`, strip() and lower() are computed *)
(* and not assumed.  Long fixed literals of the source are one token each. *)
EXTENDS Integers, Sequences, FiniteSets, TLC

VARIABLES
    pc,          \* position of the running call / handler
    caller,      \* "api": the function was called directly; "app": by the handler
    \* ---- configuration and prompt collaborators (process-wide caches)
    providerRaw, \* the provider selector as written in config.yml / AI_PROVIDER
    config,      \* AppConfig as returned by get_config()
    prompts,     \* keys of prompts._CACHE
    slack_token, \* config.slack.user_token or config.slack.token
    \* ---- generate_support
    text, mode, context,   \* arguments (mode, context as rebound on lines 17-18)
    netLog,      \* network calls made so far, in order (backend names)
    invoked,     \* backend functions entered so far, in order
    backendRet,  \* what the last backend function returned: "unset", "none", "result"
    response,    \* what the Ollama endpoint answered to this call's request, if asked
    result,      \* the SupportResult returned
    outcome,     \* "running" | "returned" | "raised"
    exc,         \* the exception that left generate_support, NoException if none
    \* ---- fetch_thread_messages
    channel_id, channel_name,  \* arguments
    messages,    \* local accumulator
    cursor,      \* local cursor
    requests,    \* cursors sent with each conversations_replies call, in order
    served,      \* pages answered by the API, in order
    fetchOutcome,\* "running" | "returned" | "raised"
    fetchRet,    \* the list returned to the caller (<<>> unless returned)
    \* ---- SlackAgentApp
    app_messages,    \* self.messages
    selected_index,  \* self.selected_index, 0 for None, else 1-based index
    status_text,     \* self.status_text
    output_text,     \* content of the output widget
    errorShown,      \* messagebox.showerror was shown by the running handler
    support_mode,    \* self.support_mode (the radio buttons)
    thread_messages, \* the handler's local thread_messages
    appLog           \* what the running handler did, in order

genVars == <<text, mode, context, netLog, invoked, backendRet, response, result,
            outcome, exc>>
cfgVars == <<providerRaw, config, prompts, slack_token>>
fetchVars == <<channel_id, channel_name, messages, cursor, requests, served,
               fetchOutcome, fetchRet>>
appVars == <<app_messages, selected_index, status_text, output_text, errorShown,
             support_mode, thread_messages, appLog>>
vars == <<pc, caller, cfgVars, genVars, fetchVars, appVars>>

-----------------------------------------------------------------------------
(* Python strings *)

None == <<"<None>">>

Truthy(s) == s # None /\ s # <<>>

\* Python `a or b`
Or(a, b) == IF Truthy(a) THEN a ELSE b

Whitespace == {" ", "\n"}

RECURSIVE LStrip(_)
LStrip(s) == IF s # <<>> /\ Head(s) \in Whitespace THEN LStrip(Tail(s)) ELSE s

RECURSIVE RStrip(_)
RStrip(s) ==
    IF s # <<>> /\ s[Len(s)] \in Whitespace
    THEN RStrip(SubSeq(s, 1, Len(s) - 1))
    ELSE s

\* str.strip()
Strip(s) == LStrip(RStrip(s))

LowerTok(c) ==
    CASE c = "OpenAI"  -> "openai"
      [] c = "OLLAMA"  -> "ollama"
      [] c = "Summary" -> "summary"
      [] c = "TODO"    -> "todo"
      [] OTHER         -> c

\* str.lower()
Lower(s) == [i \in DOMAIN s |-> LowerTok(s[i])]

\* s[:n]
Take(s, n) == SubSeq(s, 1, IF Len(s) < n THEN Len(s) ELSE n)

FirstNewline(s) ==
    IF \E i \in DOMAIN s : s[i] = "\n"
    THEN CHOOSE i \in DOMAIN s : s[i] = "\n" /\ \A j \in 1..(i - 1) : s[j] # "\n"
    ELSE 0

\* str.splitlines()
RECURSIVE SplitLines(_)
SplitLines(s) ==
    IF s = <<>> THEN <<>>
    ELSE LET i == FirstNewline(s) IN
         IF i = 0 THEN <<s>>
         ELSE <<SubSeq(s, 1, i - 1)>> \o SplitLines(SubSeq(s, i + 1, Len(s)))

\* sep.join(parts)
RECURSIVE Join(_, _)
Join(sep, parts) ==
    IF parts = <<>> THEN <<>>
    ELSE IF Len(parts) = 1 THEN parts[1]
    ELSE parts[1] \o sep \o Join(sep, Tail(parts))

-----------------------------------------------------------------------------
(* Bounds of the model and constants of the program *)

MaxPages == 2          \* pages one thread listing may have
MaxThreadMsgs == 3     \* raw messages of one thread, over all its pages
MaxMatches == 1        \* matches per search response

SummaryOneLineMax == 120
SummaryTwoLineMax == 180

-----------------------------------------------------------------------------
(* config.py and prompts.py *)

RawProviders ==
    { <<"openai">>, <<" ", "OpenAI", " ">>, <<"ollama">>, <<"OLLAMA", "\n">>,
      <<"auto">>, <<"gemini">>, <<" ">> }

ApiKeys == { <<>>, <<"sk-key">> }
OllamaModels == { <<>>, <<"llama3">> }

\* load_config: the AppConfig built from the values read
load_config(rawProvider, apiKey, ollamaModel) ==
    [ ai_provider  |-> Or(Lower(Strip(rawProvider)), <<"auto">>),
      api_key      |-> apiKey,
      ollama_model |-> ollamaModel ]

Configs ==
    { load_config(p, k, m) : p \in RawProviders, k \in ApiKeys, m \in OllamaModels }

ModeKeys == { <<"reply">>, <<"summary">>, <<"todo">> }
SystemKey == <<"system">>

\* prompts._CACHE after _load_prompts: the keys whose file exists.  Importing
\* prompts evaluates system_prompt(), so a process that runs has "system".
PromptTables ==
    { {SystemKey} \cup ks : ks \in { ModeKeys, ModeKeys \ {<<"summary">>}, {} } }

\* _get_prompt(key): "ok" or the exception raised
get_prompt(table, key) == IF key \in table THEN "ok" ELSE "FileNotFoundError"

instruction_for(table, m) == get_prompt(table, m)

system_prompt(table) == get_prompt(table, SystemKey)

-----------------------------------------------------------------------------
(* ai_support.py *)

NoException == "none"

NoResult == [content |-> None, model |-> "none"]

SupportResult(c, m) == [content |-> c, model |-> m]

\* what a backend function does: returns None, returns a SupportResult, or raises
BackendNone(net) ==
    [kind |-> "none", res |-> NoResult, exc |-> NoException, net |-> net]

BackendResult(r) ==
    [kind |-> "result", res |-> r, exc |-> NoException, net |-> TRUE]

BackendRaise(e, net) ==
    [kind |-> "raise", res |-> NoResult, exc |-> e, net |-> net]

openai_available(cfg) == Truthy(cfg.api_key)

ollama_available(cfg) == Truthy(cfg.ollama_model)

\* line 21 and line 25: the conditions under which each backend is tried
UseOpenAI_NoProviderCheck(cfg) == openai_available(cfg)

UseOpenAI(cfg) == cfg.ai_provider = <<"openai">> /\ openai_available(cfg)

UseOllama_NoProviderCheck(cfg) == ollama_available(cfg)

UseOllama(cfg) == cfg.ai_provider = <<"ollama">> /\ ollama_available(cfg)

\* _resolve_provider (defined in the source, called nowhere)
resolve_provider(value) ==
    LET provider == Lower(Strip(Or(value, <<>>))) IN
    IF provider \in { <<"openai">>, <<"ollama">> } THEN provider ELSE <<"auto">>

\* ---- what the world may answer to the OpenAI backend
OutputTexts == { <<>>, <<" ">>, <<" ", "o", "k", "\n">> }

OpenAIEnvs ==
    { [import |-> i, ctor |-> c, create |-> r, output_text |-> t] :
        i \in {"ok", "ImportError"},
        c \in {"ok", "TypeError"},
        r \in {"ok", "APIConnectionError", "no_output_text"},
        t \in OutputTexts }

generate_with_openai(txt, m, ctx, cfg, table, env) ==
    IF env.import # "ok" THEN BackendNone(FALSE)
    ELSE IF ~Truthy(cfg.api_key) THEN BackendNone(FALSE)
    ELSE IF env.ctor # "ok" THEN BackendRaise(env.ctor, FALSE)
    ELSE IF instruction_for(table, m) # "ok"
         THEN BackendRaise(instruction_for(table, m), FALSE)
    ELSE IF system_prompt(table) # "ok"
         THEN BackendRaise(system_prompt(table), FALSE)
    ELSE IF env.create \notin {"ok", "no_output_text"} THEN BackendNone(TRUE)
    ELSE LET content == IF env.create = "ok" THEN Strip(env.output_text) ELSE <<>> IN
         IF ~Truthy(content) THEN BackendNone(TRUE)
         ELSE BackendResult(SupportResult(content, "openai"))

\* ---- what the world may answer to the Ollama backend
\* a JSON scalar: absent key, null, a string or a number
JAbsent == [t |-> "absent", s |-> <<>>]
JNull == [t |-> "null", s |-> <<>>]
JStr(s) == [t |-> "str", s |-> s]
JNum == [t |-> "num", s |-> <<>>]

JScalars == { JAbsent, JNull, JNum } \cup { JStr(s) : s \in OutputTexts }

\* the value under "message": absent, null, a string, or an object with "content"
JMessages ==
    { [t |-> k, content |-> JAbsent] : k \in {"absent", "null", "str"} }
    \cup { [t |-> "dict", content |-> c] : c \in JScalars }

JResponses == { JAbsent, JNull, JNum, JStr(<<>>), JStr(<<"r", " ">>) }

JBodies ==
    { [t |-> "list", message |-> [t |-> "absent", content |-> JAbsent],
       response |-> JAbsent] }
    \cup { [t |-> "dict", message |-> msg, response |-> r] :
             msg \in JMessages, r \in JResponses }

OllamaEnvs ==
    { [urlopen |-> u, body |-> "json", parsed |-> CHOOSE b \in JBodies : b.t = "list"] :
        u \in {"URLError", "RemoteDisconnected"} }
    \cup { [urlopen |-> "ok", body |-> b,
            parsed |-> CHOOSE j \in JBodies : j.t = "list"] :
             b \in {"not_utf8", "not_json"} }
    \cup { [urlopen |-> "ok", body |-> "json", parsed |-> j] : j \in JBodies }

\* no request was sent to the endpoint
NoResponse ==
    [urlopen |-> "unasked", body |-> "none",
     parsed |-> CHOOSE j \in JBodies : j.t = "list"]

\* Python truth value of a JSON scalar as json.loads gives it
JTruthy(v) == v.t = "num" \/ (v.t = "str" /\ v.s # <<>>)

\* dict.get(key) / dict.get(key, ""): an absent key and null are both falsy
JOr(a, b) == IF JTruthy(a) THEN a ELSE b

\* lines 115-124, from the parsed JSON value on
ollama_content(parsed) ==
    IF parsed.t # "dict" THEN BackendNone(TRUE)
    ELSE IF parsed.message.t \in {"null", "str"}
         THEN BackendRaise("AttributeError", TRUE)
    ELSE LET content == JOr(parsed.message.content, JOr(parsed.response, JStr(<<>>))) IN
         IF ~JTruthy(content) THEN BackendNone(TRUE)
         ELSE IF content.t # "str" THEN BackendRaise("AttributeError", TRUE)
         ELSE BackendResult(SupportResult(Strip(content.s), "ollama"))

generate_with_ollama(txt, m, ctx, cfg, table, env) ==
    IF ~Truthy(cfg.ollama_model) THEN BackendNone(FALSE)
    ELSE IF instruction_for(table, m) # "ok"
         THEN BackendRaise(instruction_for(table, m), FALSE)
    ELSE IF system_prompt(table) # "ok"
         THEN BackendRaise(system_prompt(table), FALSE)
    ELSE IF env.urlopen = "URLError" THEN BackendNone(TRUE)
    ELSE IF env.urlopen # "ok" THEN BackendRaise(env.urlopen, TRUE)
    ELSE IF env.body = "not_utf8" THEN BackendRaise("UnicodeDecodeError", TRUE)
    ELSE IF env.body = "not_json" THEN BackendNone(TRUE)
    ELSE ollama_content(env.parsed)

\* ---- the local templates
RECURSIVE StrippedNonEmptyLines(_)
StrippedNonEmptyLines(ls) ==
    IF ls = <<>> THEN <<>>
    ELSE (IF Strip(Head(ls)) # <<>> THEN <<Strip(Head(ls))>> ELSE <<>>)
         \o StrippedNonEmptyLines(Tail(ls))

simple_summary(txt) ==
    LET lines == StrippedNonEmptyLines(SplitLines(txt)) IN
    IF lines = <<>> THEN <<"<cannot summarise empty content>">>
    ELSE IF Len(lines) = 1 THEN <<"<gist>: ">> \o Take(lines[1], SummaryOneLineMax)
    ELSE <<"<gist>: ">>
         \o Take(Join(<<" ", "/", " ">>, Take(lines, 2)), SummaryTwoLineMax)

simple_reply(txt) == <<"<reply draft template>">>

simple_todo(txt) == <<"<todo list template>">>

fallback_support_AlwaysReply(txt, m, ctx) ==
    SupportResult(simple_reply(txt), "fallback")

fallback_support_ErrorReport(txt, m, ctx) ==
    SupportResult(<<"<assistance generation failed>">>, "error")

fallback_support(txt, m, ctx) ==
    IF m = <<"summary">> THEN SupportResult(simple_summary(txt), "fallback")
    ELSE IF m = <<"todo">> THEN SupportResult(simple_todo(txt), "fallback")
    ELSE SupportResult(simple_reply(txt), "fallback")

-----------------------------------------------------------------------------
(* generate_support, one action per statement group of lines 16-29 *)

Texts ==
    { <<>>, <<" ", "\n">>, <<"h", "i">>,
      <<" ", "a", "\n", " ", "\n", "b", " ", "\n", "c">> }

Modes == { <<"reply">>, <<"summary">>, <<"Summary">>, <<"todo">>, <<"other">> }

Contexts == { None, <<"alice", " ", "/", " ", "general">> }

GenIdle ==
    /\ text = <<>> /\ mode = <<>> /\ context = None
    /\ netLog = <<>> /\ invoked = <<>> /\ backendRet = "unset"
    /\ response = NoResponse
    /\ result = NoResult /\ outcome = "running" /\ exc = NoException

\* the call generate_support(t, m, c) is entered
GenCall(t, m, c) ==
    /\ text' = t /\ mode' = m /\ context' = c
    /\ netLog' = <<>> /\ invoked' = <<>> /\ backendRet' = "unset"
    /\ response' = NoResponse
    /\ result' = NoResult /\ outcome' = "running" /\ exc' = NoException

\* lines 17-19
GenEnter ==
    /\ pc = "g_enter"
    /\ context' = Or(context, <<>>)
    /\ mode' = Lower(mode)
    /\ pc' = "g_openai"
    /\ UNCHANGED <<caller, cfgVars, text, netLog, invoked, backendRet, response, result,
                   outcome, exc, fetchVars, appVars>>

\* the effect of one backend call on the state of generate_support:
\* a truthy result is returned, an exception leaves the function, None falls through
GenBackendStep(name, r, next) ==
    /\ invoked' = Append(invoked, name)
    /\ netLog' = IF r.net THEN Append(netLog, name) ELSE netLog
    /\ backendRet' = r.kind
    /\ IF r.kind = "result"
       THEN /\ result' = r.res /\ outcome' = "returned" /\ exc' = exc
            /\ pc' = "g_done"
       ELSE IF r.kind = "raise"
       THEN /\ result' = result /\ outcome' = "raised" /\ exc' = r.exc
            /\ pc' = "g_done"
       ELSE /\ UNCHANGED <<result, outcome, exc>>
            /\ pc' = next

\* lines 21-24
GenOpenAI ==
    /\ pc = "g_openai"
    /\ IF UseOpenAI(config)
       THEN \E env \in OpenAIEnvs :
              GenBackendStep("openai",
                  generate_with_openai(text, mode, context, config, prompts, env),
                  "g_ollama")
       ELSE /\ pc' = "g_ollama"
            /\ UNCHANGED <<invoked, netLog, backendRet, result, outcome, exc>>
    /\ UNCHANGED <<caller, cfgVars, text, mode, context, response, fetchVars, appVars>>

\* lines 25-28
GenOllama ==
    /\ pc = "g_ollama"
    /\ IF UseOllama(config)
       THEN \E env \in OllamaEnvs :
              LET r == generate_with_ollama(text, mode, context, config, prompts, env)
              IN  /\ GenBackendStep("ollama", r, "g_fallback")
                  /\ response' = IF r.net THEN env ELSE response
       ELSE /\ pc' = "g_fallback"
            /\ UNCHANGED <<invoked, netLog, backendRet, response, result, outcome, exc>>
    /\ UNCHANGED <<caller, cfgVars, text, mode, context, fetchVars, appVars>>

\* line 29
GenFallback ==
    /\ pc = "g_fallback"
    /\ result' = fallback_support(text, mode, context)
    /\ outcome' = "returned"
    /\ pc' = "g_done"
    /\ UNCHANGED <<caller, cfgVars, text, mode, context, netLog, invoked,
                   backendRet, response, exc, fetchVars, appVars>>

-----------------------------------------------------------------------------
(* slack_service.py *)

SlackMessage(cid, cname, uid, uname, txt, ts, permalink, thread_ts) ==
    [ channel_id |-> cid, channel_name |-> cname, user_id |-> uid,
      user_name |-> uname, text |-> txt, ts |-> ts, permalink |-> permalink,
      thread_ts |-> thread_ts ]

\* ---- raw records of conversations.replies
RawThread(txt, user, bot_id, username, bot_name, ts, thread_ts) ==
    [ text |-> txt, user |-> user, bot_id |-> bot_id, username |-> username,
      bot_profile_name |-> bot_name, ts |-> ts, thread_ts |-> thread_ts ]

RawEmptyText == RawThread(<<>>, <<"u1">>, None, None, None, <<"1">>, None)
RawHi == RawThread(<<" ", "h", "i", " ">>, <<"u1">>, None, <<"alice">>, None,
                   <<"2">>, <<"1">>)
RawBot == RawThread(<<"y", "o">>, None, <<"b1">>, None, <<"bot">>, <<"1">>, None)
RawAnon == RawThread(<<"n", "a", "\n">>, <<>>, None, None, None, None, None)
RawBlank == RawThread(<<" ", "\n">>, <<"u1">>, None, None, None, <<"3">>, None)

RawThreadMessages == { RawEmptyText, RawHi, RawBot, RawAnon, RawBlank }

\* _resolve_thread_user_name
resolve_thread_user_name(message, user_id) ==
    Or(message.username, Or(message.bot_profile_name, user_id))

\* _to_thread_message: the record, or nothing (None) as the empty sequence
to_thread_message(message, cid, cname) ==
    LET txt == Strip(Or(message.text, <<>>))
        user_id == Or(message.user, Or(message.bot_id, <<"unknown">>))
        ts == Or(message.ts, <<"0">>)
    IN  IF ~Truthy(txt) THEN <<>>
        ELSE << SlackMessage(cid, cname, user_id,
                             resolve_thread_user_name(message, user_id),
                             txt, ts, None, Or(message.thread_ts, ts)) >>

ConvertPage_Reversed(raws, cid, cname) ==
    LET RECURSIVE Rev(_)
        Rev(rs) ==
            IF rs = <<>> THEN <<>>
            ELSE Rev(Tail(rs)) \o to_thread_message(Head(rs), cid, cname)
    IN  Rev(raws)

\* lines 79-82: the records one page appends
RECURSIVE ConvertPage(_, _, _)
ConvertPage(raws, cid, cname) ==
    IF raws = <<>> THEN <<>>
    ELSE to_thread_message(Head(raws), cid, cname)
         \o ConvertPage(Tail(raws), cid, cname)

\* ---- raw records of search.messages
RawMatch(cid, cname, user, username, txt, ts, timestamp, permalink, thread_ts) ==
    [ channel_id |-> cid, channel_name |-> cname, user |-> user,
      username |-> username, text |-> txt, ts |-> ts, timestamp |-> timestamp,
      permalink |-> permalink, thread_ts |-> thread_ts ]

MatchHelp == RawMatch(<<"C1">>, <<"general">>, <<"u1">>, <<"alice">>,
                      <<" ", "h", "e", "l", "p">>, <<"5">>, None,
                      <<"https://x/p5">>, <<"3">>)
MatchNoChannel == RawMatch(None, None, <<"u1">>, None, <<"h", "i">>, <<"6">>,
                           None, None, None)
MatchNoUser == RawMatch(<<"C2">>, None, <<>>, None, <<"h", "i">>, <<"7">>,
                        None, None, None)
MatchBlank == RawMatch(<<"C2">>, None, <<"u2">>, None, <<" ">>, None, <<"8">>,
                       None, None)
MatchBare == RawMatch(<<"C2">>, None, <<"u2">>, None, <<"o", "k">>, None, <<"8">>,
                      None, None)

RawMatches == { MatchHelp, MatchNoChannel, MatchNoUser, MatchBlank, MatchBare }

\* _channel_name
channel_name_of(cid, cname) == Or(cname, cid)

\* _resolve_match_user_name
resolve_match_user_name(match, user_id) == Or(match.username, user_id)

\* _to_message: the record, or nothing (None) as the empty sequence
to_message(match) ==
    LET cid == Or(match.channel_id, <<>>)
        user_id == Or(match.user, <<>>)
        txt == Strip(Or(match.text, <<>>))
    IN  IF ~Truthy(cid) THEN <<>>
        ELSE IF ~Truthy(user_id) \/ ~Truthy(txt) THEN <<>>
        ELSE << SlackMessage(cid, channel_name_of(cid, match.channel_name),
                             user_id, resolve_match_user_name(match, user_id),
                             txt, Or(match.ts, Or(match.timestamp, <<"0">>)),
                             match.permalink,
                             Or(match.thread_ts, Or(match.ts, match.timestamp))) >>

\* lines 34-40: the results of one search response
RECURSIVE ConvertMatches(_)
ConvertMatches(matches) ==
    IF matches = <<>> THEN <<>>
    ELSE to_message(Head(matches)) \o ConvertMatches(Tail(matches))

\* ---- the thread listing API
Cursors == { None, <<>>, <<"X">> }

RECURSIVE SeqsUpTo(_, _)
SeqsUpTo(S, n) ==
    IF n = 0 THEN { <<>> }
    ELSE SeqsUpTo(S, n - 1)
         \cup { Append(q, x) : q \in { r \in SeqsUpTo(S, n - 1) : Len(r) = n - 1 },
                               x \in S }

Pages ==
    { [messages |-> ms, next_cursor |-> c] :
        ms \in SeqsUpTo(RawThreadMessages, MaxThreadMsgs), c \in Cursors }

\* the raw messages of a chain of pages, in order
RECURSIVE RawOf(_)
RawOf(pages) ==
    IF pages = <<>> THEN <<>> ELSE Head(pages).messages \o RawOf(Tail(pages))

ChannelIds == { <<>>, <<"C1">> }

FetchIdle ==
    /\ channel_id = None /\ channel_name = None
    /\ messages = <<>> /\ cursor = None /\ requests = <<>> /\ served = <<>>
    /\ fetchOutcome = "running" /\ fetchRet = <<>>

\* the call fetch_thread_messages(cid, thread_ts, cname) is entered: lines 70-71
FetchCall(cid, cname) ==
    /\ channel_id' = cid /\ channel_name' = cname
    /\ messages' = <<>> /\ cursor' = None /\ requests' = <<>> /\ served' = <<>>
    /\ fetchOutcome' = "running" /\ fetchRet' = <<>>

\* what `return messages` hands to the caller when the loop ends (line 86)
FetchReturned(msgs) == msgs

\* what the caller gets when the remote call raised (line 78: nothing)
FetchRaised_Partial(msgs) == msgs

FetchRaised(msgs) == <<>>

\* one iteration of the loop, lines 72-86: the request fails (a SlackApiError
\* is re-raised as RuntimeError, anything else leaves the function as it is) ...
FetchPageError ==
    /\ pc = "f_loop"
    /\ requests' = Append(requests, cursor)
    /\ fetchOutcome' = "raised"
    /\ fetchRet' = FetchRaised(messages)
    /\ pc' = "f_done"
    /\ UNCHANGED <<caller, cfgVars, genVars, channel_id, channel_name, messages,
                   cursor, served, appVars>>

\* line 83: the cursor the next request will carry
NextCursor_Keep(cur, page) == cur

NextCursor(cur, page) == page.next_cursor

\* ... or is answered with a page
FetchPage ==
    /\ pc = "f_loop"
    /\ \E page \in Pages :
         /\ Len(served) + 1 < MaxPages \/ ~Truthy(page.next_cursor)
         /\ Len(RawOf(served)) + Len(page.messages) <= MaxThreadMsgs
         /\ requests' = Append(requests, cursor)
         /\ served' = Append(served, page)
         /\ messages' = messages \o ConvertPage(page.messages, channel_id, channel_name)
         /\ cursor' = NextCursor(cursor, page)
         /\ IF ~Truthy(cursor')
            THEN /\ fetchOutcome' = "returned"
                 /\ fetchRet' = FetchReturned(messages')
                 /\ pc' = "f_done"
            ELSE /\ UNCHANGED <<fetchOutcome, fetchRet>>
                 /\ pc' = "f_loop"
    /\ UNCHANGED <<caller, cfgVars, genVars, channel_id, channel_name, appVars>>

-----------------------------------------------------------------------------
(* app.py *)

SlackTokens == { <<>>, <<"xoxp-token">> }

Queries == { <<" ">>, <<"from:me">> }

SearchResponses == SeqsUpTo(RawMatches, MaxMatches)

\* _slack_ready
slack_ready == Truthy(slack_token)

\* _format_ts: a timestamp that parses as a number is rendered as a date
format_ts(ts) == <<"utc(">> \o ts \o <<")">>

\* _format_thread_messages
RECURSIVE ThreadLines(_)
ThreadLines(msgs) ==
    IF msgs = <<>> THEN <<>>
    ELSE << <<"[">> \o format_ts(Head(msgs).ts) \o <<"]", " ">>
            \o Head(msgs).user_name \o <<":", " ">> \o Head(msgs).text >>
         \o ThreadLines(Tail(msgs))

format_thread_messages(msgs) == Join(<<"\n">>, ThreadLines(msgs))

AppIdle ==
    /\ app_messages = <<>> /\ selected_index = 0
    /\ status_text = "ready" /\ output_text = <<>> /\ errorShown = FALSE
    /\ support_mode = <<"reply">> /\ thread_messages = <<>> /\ appLog = <<>>

\* refresh_messages, lines 95-107 (with _render_message_list and _clear_detail)
Refresh ==
    IF ~slack_ready
    THEN UNCHANGED <<app_messages, selected_index, status_text, output_text,
                     errorShown>>
    ELSE \E query \in Queries, fails \in BOOLEAN, answer \in SearchResponses :
         IF Strip(query) = <<>> \/ fails
         THEN \* ValueError of the blank query, or RuntimeError of the failed call
              /\ errorShown' = TRUE
              /\ status_text' = "search_failed"
              /\ UNCHANGED <<app_messages, selected_index, output_text>>
         ELSE /\ app_messages' = ConvertMatches(answer)
              /\ selected_index' = 0
              /\ output_text' = <<>>
              /\ status_text' = "search_shown"
              /\ errorShown' = FALSE

\* __init__ ends with refresh_messages()
AppConstruct ==
    /\ pc = "a_init"
    /\ Refresh
    /\ pc' = "idle"
    /\ UNCHANGED <<caller, cfgVars, genVars, fetchVars, support_mode,
                   thread_messages, appLog>>

\* the search / refresh buttons
RefreshMessages ==
    /\ pc = "idle"
    /\ Refresh
    /\ UNCHANGED <<pc, caller, cfgVars, genVars, fetchVars, support_mode,
                   thread_messages, appLog>>

\* on_select_message: a click on list entry i
OnSelectMessage ==
    /\ pc = "idle"
    /\ \E i \in 1..Len(app_messages) :
         /\ selected_index' = i
         /\ output_text' = <<>>
    /\ UNCHANGED <<pc, caller, cfgVars, genVars, fetchVars, app_messages,
                   status_text, errorShown, support_mode, thread_messages, appLog>>

\* a radio button of the support frame
SelectMode ==
    /\ pc = "idle"
    /\ \E m \in ModeKeys : m # support_mode /\ support_mode' = m
    /\ UNCHANGED <<pc, caller, cfgVars, genVars, fetchVars, app_messages,
                   selected_index, status_text, output_text, errorShown,
                   thread_messages, appLog>>

\* on_generate_support, lines 138-147 and _fetch_thread_messages up to the call;
\* the model follows the application to the end of one run of this handler
OnGenerateSupport ==
    /\ pc = "idle"
    /\ IF selected_index = 0
       THEN /\ appLog' = <<"select_prompt">>
            /\ pc' = "a_done"
            /\ UNCHANGED <<caller, status_text, errorShown, fetchVars>>
       ELSE LET msg == app_messages[selected_index] IN
            /\ status_text' = "fetching_thread"
            /\ errorShown' = FALSE
            /\ appLog' = <<"fetch_called">>
            /\ caller' = "app"
            /\ FetchCall(msg.channel_id, msg.channel_name)
            /\ pc' = "f_loop"
    /\ UNCHANGED <<cfgVars, genVars, app_messages, selected_index, output_text,
                   support_mode, thread_messages>>

\* line 148: is the list _fetch_thread_messages handed back taken as a failure?
FetchFailed(how, msgs) == msgs = <<>>

\* _fetch_thread_messages returns (lines 214-220), then lines 148-155
AppFetchDone ==
    /\ pc = "f_done" /\ caller = "app"
    /\ LET got == IF fetchOutcome = "raised" THEN <<>> ELSE fetchRet
           msg == app_messages[selected_index]
       IN
       /\ errorShown' = (fetchOutcome = "raised")
       /\ thread_messages' = got
       /\ IF FetchFailed(fetchOutcome, got)
          THEN /\ status_text' = "thread_fetch_failed"
               /\ appLog' = Append(appLog, "fetch_" \o fetchOutcome)
               /\ pc' = "a_done"
               /\ UNCHANGED genVars
          ELSE /\ status_text' = "generating"
               /\ appLog' = appLog \o <<"fetch_" \o fetchOutcome, "generate_called">>
               /\ GenCall(format_thread_messages(got), support_mode,
                          msg.user_name \o <<" ", "/", " ">> \o msg.channel_name)
               /\ pc' = "g_enter"
    /\ UNCHANGED <<caller, cfgVars, fetchVars, app_messages, selected_index,
                   output_text, support_mode>>

\* lines 155-160; an exception of generate_support leaves the handler
AppGenDone ==
    /\ pc = "g_done" /\ caller = "app"
    /\ IF outcome = "raised"
       THEN /\ appLog' = Append(appLog, "handler_raised")
            /\ UNCHANGED <<output_text, status_text>>
       ELSE /\ output_text' =
                  IF result.model = "fallback"
                  THEN result.content \o <<"\n", "\n", "(local quick generation)">>
                  ELSE result.content
            /\ status_text' = "support_shown"
            /\ appLog' = Append(appLog, "displayed")
    /\ pc' = "a_done"
    /\ UNCHANGED <<caller, cfgVars, genVars, fetchVars, app_messages,
                   selected_index, errorShown, support_mode, thread_messages>>

-----------------------------------------------------------------------------
(* Specifications *)

CfgNone ==
    /\ providerRaw = <<>> /\ config = load_config(<<>>, <<>>, <<>>)
    /\ prompts = {SystemKey} \cup ModeKeys /\ slack_token = <<>>

\* generate_support called directly, under every configuration
InitGen ==
    /\ pc = "g_enter" /\ caller = "api"
    /\ providerRaw \in RawProviders
    /\ \E k \in ApiKeys, m \in OllamaModels : config = load_config(providerRaw, k, m)
    /\ prompts \in PromptTables
    /\ slack_token = <<>>
    /\ text \in Texts /\ mode \in Modes /\ context \in Contexts
    /\ netLog = <<>> /\ invoked = <<>> /\ backendRet = "unset"
    /\ response = NoResponse
    /\ result = NoResult /\ outcome = "running" /\ exc = NoException
    /\ FetchIdle /\ AppIdle

NextGen == GenEnter \/ GenOpenAI \/ GenOllama \/ GenFallback

SpecGen == InitGen /\ [][NextGen]_vars

\* fetch_thread_messages called directly
InitFetch ==
    /\ pc = "f_loop" /\ caller = "api"
    /\ CfgNone /\ GenIdle /\ AppIdle
    /\ channel_id \in ChannelIds /\ channel_name = <<"general">>
    /\ messages = <<>> /\ cursor = None /\ requests = <<>> /\ served = <<>>
    /\ fetchOutcome = "running" /\ fetchRet = <<>>

NextFetch == FetchPage \/ FetchPageError

SpecFetch == InitFetch /\ [][NextFetch]_vars

\* the application, from its construction to the end of one on_generate_support
AppProviders == { <<"ollama">>, <<" ", "OpenAI", " ">>, <<"auto">> }

InitApp ==
    /\ pc = "a_init" /\ caller = "api"
    /\ providerRaw \in AppProviders
    /\ config = load_config(providerRaw, <<"sk-key">>, <<"llama3">>)
    /\ prompts \in { {SystemKey} \cup ModeKeys, {SystemKey} \cup (ModeKeys \ {<<"summary">>}) }
    /\ slack_token \in SlackTokens
    /\ GenIdle /\ FetchIdle /\ AppIdle

NextApp ==
    \/ AppConstruct \/ RefreshMessages \/ OnSelectMessage \/ SelectMode
    \/ OnGenerateSupport \/ FetchPage \/ FetchPageError \/ AppFetchDone
    \/ GenEnter \/ GenOpenAI \/ GenOllama \/ GenFallback \/ AppGenDone

SpecApp == InitApp /\ [][NextApp]_vars

-----------------------------------------------------------------------------
(* Claims *)

Recognized == { <<"openai">>, <<"ollama">> }

\* the selector as the orchestrator compares it: trimmed and lower-cased
Normalized(raw) == Lower(Strip(raw))

GenDone == pc = "g_done"

\* the text a local template gives for a (lower-cased) mode
TemplateFor(txt, m) ==
    IF m = <<"summary">> THEN simple_summary(txt)
    ELSE IF m = <<"todo">> THEN <<"<todo list template>">>
    ELSE <<"<reply draft template>">>

\* C1: generate_support never raises to its caller; whatever the backend step
\* does, the call returns a result, and a result that is not a backend's
\* content is tagged "error".
C1_NeverRaises ==
    GenDone =>
        /\ outcome = "returned"
        /\ exc = NoException
        /\ result.model \in {"openai", "ollama", "error"}

\* C2 as stated: for every selector that is not one of the two recognized
\* identifiers after trimming and lower-casing, the result is tagged "error",
\* carries a non-empty diagnostic, and no network call was made.
C2_UnrecognizedIsError ==
    (GenDone /\ Normalized(providerRaw) \notin Recognized) =>
        /\ outcome = "returned"
        /\ result.model = "error"
        /\ Truthy(result.content)
        /\ netLog = <<>>

\* C2 amended: for every such selector, the call returns a result tagged
\* "fallback" with non-empty content, no backend is attempted and no network
\* call is made.
C2_UnrecognizedIsFallback ==
    (GenDone /\ Normalized(providerRaw) \notin Recognized) =>
        /\ outcome = "returned"
        /\ result.model = "fallback"
        /\ Truthy(result.content)
        /\ invoked = <<>>
        /\ netLog = <<>>

C2_Witness ==
    /\ GenDone
    /\ providerRaw = <<"gemini">>
    /\ Truthy(config.api_key) /\ Truthy(config.ollama_model)
    /\ result.model = "fallback"

\* the selector resolves to a backend whose prerequisite is missing
PrerequisiteMissing ==
    \/ Normalized(providerRaw) = <<"openai">> /\ config.api_key = <<>>
    \/ Normalized(providerRaw) = <<"ollama">> /\ config.ollama_model = <<>>

\* C3 as stated: when the resolved backend's prerequisite is missing, the
\* result is tagged "error", its content is that backend's precondition
\* diagnostic, and no network call is attempted.
C3_MissingPrerequisiteIsError ==
    (GenDone /\ PrerequisiteMissing) =>
        /\ outcome = "returned"
        /\ result.model = "error"
        /\ result.content # TemplateFor(text, mode)
        /\ netLog = <<>>

\* C3 amended: when the resolved backend's prerequisite is missing, the call
\* returns a result tagged "fallback" whose content is the local template of
\* the mode, and no network call is attempted.
C3_MissingPrerequisiteIsFallback ==
    (GenDone /\ PrerequisiteMissing) =>
        /\ outcome = "returned"
        /\ result.model = "fallback"
        /\ result.content = TemplateFor(text, mode)
        /\ netLog = <<>>

C3_Witness ==
    /\ GenDone
    /\ Normalized(providerRaw) = <<"openai">> /\ config.api_key = <<>>
    /\ Truthy(config.ollama_model)
    /\ mode = <<"summary">> /\ text = <<"h", "i">>
    /\ result.model = "fallback"

\* the selected backend was invoked, made its network call, and gave no result
BackendFailed == invoked # <<>> /\ netLog # <<>> /\ backendRet = "none"

C6_ContentNonEmpty ==
    (GenDone /\ outcome = "returned") => Truthy(result.content)

-----------------------------------------------------------------------------

FetchDone == pc = "f_done"

KeepsText(raw) == Strip(Or(raw.text, <<>>)) # <<>>

\* the records of the raw messages that have text, in the order served
ExpectedThread(raws, cid, cname) ==
    LET kept == SelectSeq(raws, KeepsText) IN
    [ i \in 1..Len(kept) |-> to_thread_message(kept[i], cid, cname)[1] ]

\* C7: for every chain of pages served without error, fetch_thread_messages
\* returns the mapped records of all pages, in page order and each page's own
\* order, with the empty-text messages removed, and makes one call per page.
C7_ReturnsConcatenation ==
    (FetchDone /\ fetchOutcome = "returned") =>
        /\ fetchRet = ExpectedThread(RawOf(served), channel_id, channel_name)
        /\ Len(requests) = Len(served)

C7_Witness ==
    /\ FetchDone /\ fetchOutcome = "returned"
    /\ Len(served) = 2
    /\ served[1] = [messages |-> <<RawHi, RawEmptyText>>, next_cursor |-> <<"X">>]
    /\ served[2] = [messages |-> <<RawBot>>, next_cursor |-> <<>>]
    /\ Len(fetchRet) = 2
    /\ fetchRet[1].ts = <<"2">> /\ fetchRet[2].ts = <<"1">>
    /\ requests = <<None, <<"X">>>>

\* C8: a remote failure on any page request ends the fetch in a failure raised
\* to the caller, who gets none of the messages of the earlier pages; a thread
\* that yields no message without a remote error is a successful empty result.
C8_AllOrNothing ==
    /\ fetchOutcome = "raised" =>
          /\ FetchDone /\ fetchRet = <<>> /\ Len(requests) = Len(served) + 1
    /\ (FetchDone /\ Len(requests) = Len(served)) =>
          /\ fetchOutcome = "returned" /\ fetchRet = messages

C8_Witness ==
    /\ FetchDone /\ fetchOutcome = "raised"
    /\ Len(served) = 1 /\ Len(messages) = 2
    /\ fetchRet = <<>>

C8_WitnessEmptyThread ==
    /\ FetchDone /\ fetchOutcome = "returned"
    /\ served = << [messages |-> <<RawEmptyText>>, next_cursor |-> None] >>
    /\ fetchRet = <<>>

\* C9: every SlackMessage either mapping function produces has non-empty
\* text, non-empty channel_id and non-empty user_id, whatever channel_id the
\* caller of fetch_thread_messages passed.
C9_RecordsComplete ==
    \A m \in { messages[i] : i \in DOMAIN messages }
             \cup { app_messages[i] : i \in DOMAIN app_messages } :
        Truthy(m.text) /\ Truthy(m.channel_id) /\ Truthy(m.user_id)

-----------------------------------------------------------------------------

InLog(e) == \E i \in DOMAIN appLog : appLog[i] = e

\* C10: in on_generate_support the thread fetch completes before
\* generate_support is called; generate_support is called, and the result it
\* returns displayed, for every fetch that ended without a retrieval failure
\* (one that yielded no message included), and is never called after a fetch
\* that raised.
C10_GenerateAfterEverySuccessfulFetch ==
    /\ (caller = "app" /\ pc \in {"g_enter", "g_openai", "g_ollama", "g_fallback", "g_done"})
          => (InLog("fetch_returned") /\ InLog("generate_called"))
    /\ InLog("fetch_raised") => ~InLog("generate_called")
    /\ (pc = "a_done" /\ InLog("fetch_returned")) =>
          /\ InLog("generate_called")
          /\ outcome = "returned" => InLog("displayed")

-----------------------------------------------------------------------------

\* the endpoint was asked and answered with a JSON object
JsonObjectAnswered ==
    /\ GenDone /\ invoked = <<"ollama">> /\ netLog = <<"ollama">>
    /\ response.urlopen = "ok" /\ response.body = "json"
    /\ response.parsed.t = "dict"

\* the field the content is to be taken from: message.content when it is
\* present and non-empty, otherwise the top-level response field
ChosenField(parsed) ==
    IF /\ parsed.message.t = "dict"
       /\ parsed.message.content.t \notin {"absent", "null"}
       /\ parsed.message.content # JStr(<<>>)
    THEN parsed.message.content
    ELSE parsed.response

\* C11: with selector ollama and a model configured, for every JSON object
\* answer the returned content is the trimmed value of message.content when
\* that field is present and non-empty, otherwise the trimmed value of the
\* top-level response field, and the result is tagged "ollama".  (Stated for
\* the answers in which that field holds a non-empty string.)
C11_OllamaContent ==
    ( /\ JsonObjectAnswered
      /\ ChosenField(response.parsed).t = "str"
      /\ ChosenField(response.parsed).s # <<>> ) =>
        /\ outcome = "returned"
        /\ result = SupportResult(Strip(ChosenField(response.parsed).s), "ollama")

-----------------------------------------------------------------------------

\* response k of the running fetch carries a continuation cursor
Continues(k) == Truthy(served[k].next_cursor)

\* C12: the page requests of one fetch_thread_messages call form a strictly
\* sequential cursor chain: the first request carries no cursor, request k+1
\* carries the next_cursor of response k, and no request follows the first
\* response without a cursor.  The fetch ends with that response; there being
\* no cap, it ends on nothing else but a remote error: as long as every
\* response carries a cursor the loop goes on.
C12_CursorChain ==
    /\ requests # <<>> => requests[1] = None
    /\ Len(served) <= Len(requests) /\ Len(requests) <= Len(served) + 1
    /\ \A k \in 1..(Len(requests) - 1) :
          Continues(k) /\ requests[k + 1] = served[k].next_cursor
    /\ \A k \in DOMAIN served :
          ~Continues(k) =>
              /\ k = Len(served) /\ Len(requests) = k
              /\ FetchDone /\ fetchOutcome = "returned"
    /\ (\A k \in DOMAIN served : Continues(k)) =>
          \/ pc = "f_loop" /\ fetchOutcome = "running" /\ Len(requests) = Len(served)
          \/ FetchDone /\ fetchOutcome = "raised" /\ Len(requests) = Len(served) + 1

C12_Witness ==
    /\ FetchDone /\ fetchOutcome = "returned"
    /\ Len(requests) = 2 /\ requests[1] = None /\ requests[2] = <<"X">>
    /\ served[1] = [messages |-> <<>>, next_cursor |-> <<"X">>]
    /\ served[2].next_cursor = None

C12_WitnessStillRunning ==
    /\ pc = "f_loop" /\ fetchOutcome = "running"
    /\ Len(served) = 1 /\ Continues(1) /\ cursor = <<"X">>

=============================================================================
